---- MODULE Spec2Model ----
(***************************************************************************)
(* Model of src/src/main.cpp: the CO2 monitor's setup() and loop(), the    *)
(* two bounded-retry helpers, the MQTT reconnect loop and the e-mail alert *)
(* logic (checkCO2Alert / sendEmailAlert).                                 *)
(*                                                                         *)
(* Units: time is in milliseconds, as returned by millis(); a CO2 reading  *)
(* is a float in the code and is kept here in tenths of a ppm (CO2Scale),  *)
(* so that readings strictly between two integers exist.                   *)
(* The firmware is single threaded: one action is one stretch of loop()    *)
(* between two points where the environment (sensor, broker, SMTP server)  *)
(* answers; every delay() of the stretch is part of the action.            *)
(***************************************************************************)
EXTENDS Integers, Sequences, FiniteSets, TLC

(* ---------------- program constants ---------------- *)
CO2_ALERT_THRESHOLD == 1000
EMAIL_COOLDOWN == 60000
HysteresisMargin == 100
MaxRetriesDefault == 3
BuzzerThreshold == 1000

(* delays of the code, in ms *)
SetupDelay == 2000
WifiConnectedDelay == 1500
ReadRetryDelay == 500
PublishRetryDelay == 1000
SensorErrorDelay == 2000
PrePublishDelay == 2000
PublishFailedDelay == 2000
MqttConnectedDelay == 1000
MqttFailedDelay == 5000
FlashDelay == 1000
AlertSentDelay == 2000
BuzzerDelay == 1000
CycleDelay == 1000

(* ---------------- bounds of the model ---------------- *)
\* tenths of a ppm per ppm
CO2Scale == 10
\* width of the millisecond counter in the model (32 on the target)
ClockBits == 20
\* no new cycle and no further failed reconnect starts at or after this time
MaxClock == 62000
\* the same limit in the specification used for progress
LiveMaxClock == 15000

Wrap == 2 ^ ClockBits

\* readings the sensor may deliver, in tenths of a ppm:
\* 899.9, 900.0, 999.9, 1000.0, 1000.5, 1001.0
Readings == {8999, 9000, 9999, 10000, 10005, 10010}

VARIABLES
    pc,             \* position of the single thread in setup()/loop()
    clock,          \* millis()
    lastEmailSent,  \* global, line 24
    emailAlertSent, \* global, line 25
    connected,      \* client.connected()
    co2,            \* local of loop(), tenths of ppm
    i,              \* loop index of the running retry helper
    currentTime,    \* local of checkCO2Alert
    rgb,            \* display background colour
    buzzer,         \* digital output 14
    calls,          \* history: invocations made by the current retry call
    result,         \* history: outcome of the retry call that just returned
    cyc,            \* history: what the current cycle has done so far
    allHigh,        \* history: every reading evaluated so far was >= threshold
    everFired,      \* history: some notification was fired since boot
    temperature,    \* local of loop(), tenths of a degree Celsius
    humidity,       \* local of loop(), tenths of a percent
    cmds,           \* display and buzzer commands issued by lines 96-117
    suspended,      \* history: delays taken by the current retry call
    allLow,         \* history: every reading acquired so far was < threshold
    lowSinceFire,   \* history: since the last notification some evaluation
                    \* saw a reading below threshold - margin
    rendered,       \* history: reading and commands of an earlier render
    elapsedTrue     \* history: ms since the last notification, unbounded

vars == <<pc, clock, lastEmailSent, emailAlertSent, connected, co2, i,
          currentTime, rgb, buzzer, calls, result, cyc, allHigh, everFired,
          temperature, humidity, cmds, suspended, allLow, lowSinceFire,
          rendered, elapsedTrue>>

\* what the model of the cycle does not follow: the cycle is driven by co2
\* alone, and the two histories belong to RenderSpec and WrapSpec
offCycle == <<temperature, humidity, rendered, elapsedTrue>>

alertState == <<emailAlertSent, lastEmailSent>>

(* ---------------- pure helpers ---------------- *)
\* mutant: the subtraction done on signed values, without wrap-around
Elapsed_Signed(now, last) == now - last

\* unsigned addition / subtraction on the millisecond counter
Advance(t, d) == (t + d) % Wrap
Elapsed(now, last) == (now - last) % Wrap

\* float compared with an integer constant
AtLeast(c, ppm) == c >= ppm * CO2Scale
Below(c, ppm) == c < ppm * CO2Scale
\* int(co2): truncation of a non-negative float
IntOf(c) == c \div CO2Scale
\* int(temperature), int(humidity): truncation towards zero
Truncated(x) == IF x >= 0 THEN x \div CO2Scale ELSE -((-x) \div CO2Scale)

\* mutant: the alert opens at the lower edge of the hysteresis band
Alerting_FromBand(c) == AtLeast(c, CO2_ALERT_THRESHOLD - HysteresisMargin)

\* line 198: co2 >= CO2_ALERT_THRESHOLD
Alerting(c) == AtLeast(c, CO2_ALERT_THRESHOLD)

\* mutant: the cooldown test dropped
ShouldNotify_NoCooldown(armed, now, last) == TRUE

\* mutant: the cooldown test applied to the first notification too
ShouldNotify_CooldownAlways(armed, now, last) ==
    Elapsed(now, last) >= EMAIL_COOLDOWN

\* line 201: !emailAlertSent || (currentTime - lastEmailSent >= EMAIL_COOLDOWN)
ShouldNotify(armed, now, last) ==
    ~armed \/ Elapsed(now, last) >= EMAIL_COOLDOWN

\* mutant: disarm at the lower edge of the band too (<= instead of <)
ShouldDisarm_Inclusive(c) ==
    c <= (CO2_ALERT_THRESHOLD - HysteresisMargin) * CO2Scale

\* mutant: disarm as soon as the reading is below the threshold
ShouldDisarm_NoMargin(c) == Below(c, CO2_ALERT_THRESHOLD)

\* line 211: co2 < CO2_ALERT_THRESHOLD - 100
ShouldDisarm(c) == Below(c, CO2_ALERT_THRESHOLD - HysteresisMargin)

\* mutant: off-by-one loop condition
RetryLoop_OneMore(k, maxRetries) == k <= maxRetries

\* lines 169 and 179: the for-loop condition i < maxRetries
RetryLoop(k, maxRetries) == k < maxRetries

\* mutant: the connectivity test dropped
NeedsReconnect_Never(conn) == FALSE

\* line 61 and line 149: !client.connected()
NeedsReconnect(conn) == ~conn

\* mutant: the result of the acquisition ignored
SensorFailed_Ignored(ok) == FALSE

\* line 69: !readSensorWithRetry(...)
SensorFailed(ok) == ~ok

\* line 90: !publishWithRetry(...)
PublishFailed(ok) == ~ok

\* mutant: the comparison of the e-mail alert (>=) used for the buzzer
ShouldBuzz_AtThreshold(c) == IntOf(c) >= BuzzerThreshold

\* line 112: int(co2) > 1000
ShouldBuzz(c) == IntOf(c) > BuzzerThreshold

\* one display or buzzer command: <<operation, text, number, number>>
\* mutant: the CO2 label depends on the alert flag
RenderCommands_AlertLabel(c, t, h) ==
    << <<"setCursor", "", 0, 0>>,
       <<"print", IF emailAlertSent THEN "CO2! " ELSE "CO2: ", 0, 0>>,
       <<"printInt", "", IntOf(c), 0>>,
       <<"print", " ppm", 0, 0>>,
       <<"setCursor", "", 0, 1>>,
       <<"print", "T: ", 0, 0>>,
       <<"printInt", "", Truncated(t), 0>>,
       <<"write", "", 223, 0>>,
       <<"print", "C", 0, 0>>,
       <<"setCursor", "", 8, 1>>,
       <<"print", "H: ", 0, 0>>,
       <<"printInt", "", Truncated(h), 0>>,
       <<"write", "", 37, 0>> >>
    \o (IF ShouldBuzz(c) THEN << <<"digitalWrite", "HIGH", 0, 0>> >>
                         ELSE << >>)

\* loop() lines 96-115: the commands sent to the display (0xDF = 223,
\* 0x25 = 37) and, at line 113, to the buzzer
RenderCommands(c, t, h) ==
    << <<"setCursor", "", 0, 0>>,
       <<"print", "CO2: ", 0, 0>>,
       <<"printInt", "", IntOf(c), 0>>,
       <<"print", " ppm", 0, 0>>,
       <<"setCursor", "", 0, 1>>,
       <<"print", "T: ", 0, 0>>,
       <<"printInt", "", Truncated(t), 0>>,
       <<"write", "", 223, 0>>,
       <<"print", "C", 0, 0>>,
       <<"setCursor", "", 8, 1>>,
       <<"print", "H: ", 0, 0>>,
       <<"printInt", "", Truncated(h), 0>>,
       <<"write", "", 37, 0>> >>
    \o (IF ShouldBuzz(c) THEN << <<"digitalWrite", "HIGH", 0, 0>> >>
                         ELSE << >>)

(* ---------------- history helpers ---------------- *)
NewCycle(armed, last) ==
    [armed0 |-> armed, last0 |-> last, evalAt |-> 0, log |-> <<>>,
     failures |-> {}, shown |-> {}]

\* append an event unless it repeats the last one (retries log once)
Logged(c, e) ==
    IF Len(c.log) > 0 /\ c.log[Len(c.log)] = e
    THEN c
    ELSE [c EXCEPT !.log = Append(@, e)]

\* append an event, repeated or not
LoggedEach(c, e) == [c EXCEPT !.log = Append(@, e)]

Shown(c, m) == [c EXCEPT !.shown = @ \cup {m}]
Failed(c, f) == [c EXCEPT !.failures = @ \cup {f}]
Evaluated(c, t) == [Logged(c, "evaluate") EXCEPT !.evalAt = t]

Has(c, e) == \E k \in 1..Len(c.log) : c.log[k] = e
Count(c, e) == Cardinality({k \in 1..Len(c.log) : c.log[k] = e})
\* every e1 in the log comes before every e2
Before(c, e1, e2) ==
    \A k2 \in 1..Len(c.log) :
        c.log[k2] = e2 => \A k1 \in k2..Len(c.log) : c.log[k1] # e1

(* ---------------- initial state ---------------- *)
\* globals as initialised at lines 24-25; nothing has run yet
Init ==
    /\ pc = "setup"
    /\ clock = 0
    /\ lastEmailSent = 0
    /\ emailAlertSent = FALSE
    /\ connected = FALSE
    /\ co2 = 0
    /\ i = 0
    /\ currentTime = 0
    /\ rgb = "white"
    /\ buzzer = "LOW"
    /\ calls = 0
    /\ result = "none"
    /\ cyc = NewCycle(FALSE, 0)
    /\ allHigh = TRUE
    /\ everFired = FALSE
    /\ temperature = 0
    /\ humidity = 0
    /\ cmds = << >>
    /\ suspended = 0
    /\ allLow = TRUE
    /\ lowSinceFire = FALSE
    /\ rendered = {}
    /\ elapsedTrue = 0

(* ---------------- actions ---------------- *)
\* setup(), lines 37-57, on the path where WiFi is associated at the first
\* status check (connectWiFi lines 136-140): delay(1500) then delay(2000).
Setup ==
    /\ pc = "setup"
    /\ pc' = "loop"
    /\ clock' = Advance(clock, WifiConnectedDelay + SetupDelay)
    /\ UNCHANGED <<lastEmailSent, emailAlertSent, connected, co2, i,
                   currentTime, rgb, buzzer, calls, result, cyc, allHigh,
                   everFired>>
    /\ UNCHANGED <<cmds, suspended, allLow, lowSinceFire, offCycle>>

\* loop() lines 59-65: the connectivity check at the top of a cycle. The
\* broker link may have dropped since the last cycle.
LoopTop ==
    /\ pc = "loop"
    /\ clock < MaxClock
    /\ \E up \in BOOLEAN :
        /\ connected' = (connected /\ up)
        /\ IF NeedsReconnect(connected')
           THEN pc' = "reconnect"
           ELSE pc' = "read"
        /\ cyc' = IF connected'
                  THEN Logged(NewCycle(emailAlertSent, lastEmailSent),
                              "connected")
                  ELSE NewCycle(emailAlertSent, lastEmailSent)
    /\ i' = 0
    /\ co2' = 0
    /\ currentTime' = 0
    /\ calls' = 0
    /\ result' = "none"
    /\ UNCHANGED <<clock, lastEmailSent, emailAlertSent, rgb, buzzer, allHigh,
                   everFired>>
    /\ suspended' = 0
    /\ cmds' = << >>
    /\ UNCHANGED <<allLow, lowSinceFire, offCycle>>

\* reconnectMQTT() lines 148-166: one turn of the while loop and the
\* re-evaluation of its condition. ok: client.connect() succeeded; up: the
\* link is still there when line 149 tests it again.
ReconnectMQTT ==
    /\ pc = "reconnect"
    /\ \E ok, up \in BOOLEAN :
        /\ (ok /\ up) \/ clock < MaxClock
        /\ ok \/ up
        /\ connected' = (ok /\ up)
        /\ clock' = Advance(clock, IF ok THEN MqttConnectedDelay
                                         ELSE MqttFailedDelay)
        /\ cyc' = IF connected' THEN Logged(cyc, "connected") ELSE cyc
        /\ pc' = IF NeedsReconnect(connected') THEN "reconnect" ELSE "read"
    /\ UNCHANGED <<lastEmailSent, emailAlertSent, co2, i, currentTime, rgb,
                   buzzer, calls, result, allHigh, everFired>>
    /\ UNCHANGED <<cmds, suspended, allLow, lowSinceFire, offCycle>>

\* readSensorWithRetry() lines 168-176, one turn of the for loop, and the
\* test of its result at line 69. The sensor either fails or delivers a
\* reading.
ReadSensorWithRetry ==
    /\ pc = "read"
    /\ RetryLoop(i, MaxRetriesDefault)
    /\ calls' = calls + 1
    /\ \E r \in Readings \cup {-1} :
        IF r # -1
        THEN \* line 171: return true
             /\ co2' = r
             /\ cyc' = Logged(Logged(cyc, "read"), "acquired")
             /\ result' = "success"
             /\ pc' = IF SensorFailed(TRUE) THEN "sensorError" ELSE "check"
             /\ allLow' = (allLow /\ ~AtLeast(r, CO2_ALERT_THRESHOLD))
             /\ UNCHANGED <<i, clock, suspended>>
        ELSE \* line 173, then i++ and the loop condition
             /\ clock' = Advance(clock, ReadRetryDelay)
             /\ suspended' = suspended + 1
             /\ UNCHANGED allLow
             /\ i' = i + 1
             /\ co2' = co2
             /\ IF RetryLoop(i + 1, MaxRetriesDefault)
                THEN /\ pc' = "read"
                     /\ result' = "none"
                     /\ cyc' = Logged(cyc, "read")
                ELSE \* line 175: return false
                     /\ result' = "failure"
                     /\ cyc' = Failed(Logged(cyc, "read"), "sensor")
                     /\ pc' = IF SensorFailed(FALSE) THEN "sensorError"
                                                     ELSE "check"
    /\ UNCHANGED <<lastEmailSent, emailAlertSent, connected, currentTime, rgb,
                   buzzer, allHigh, everFired>>
    /\ UNCHANGED <<cmds, lowSinceFire, offCycle>>

\* mutant: the firmware halts on a sensor error instead of returning
SensorError_Halt ==
    /\ pc = "sensorError"
    /\ cyc' = Shown(cyc, "Sensor Error!")
    /\ pc' = "sensorError"
    /\ calls' = 0
    /\ result' = "none"
    /\ UNCHANGED <<clock, lastEmailSent, emailAlertSent, connected, co2, i,
                   currentTime, rgb, buzzer, allHigh, everFired>>
    /\ suspended' = 0
    /\ UNCHANGED <<cmds, allLow, lowSinceFire, offCycle>>

\* loop() lines 70-73: "Sensor Error!", delay(2000), return.
SensorError ==
    /\ pc = "sensorError"
    /\ cyc' = Shown(cyc, "Sensor Error!")
    /\ clock' = Advance(clock, SensorErrorDelay)
    /\ pc' = "loop"
    /\ calls' = 0
    /\ result' = "none"
    /\ UNCHANGED <<lastEmailSent, emailAlertSent, connected, co2, i,
                   currentTime, rgb, buzzer, allHigh, everFired>>
    /\ suspended' = 0
    /\ UNCHANGED <<cmds, allLow, lowSinceFire, offCycle>>

\* mutant: the call of sendEmailAlert() at line 202 left out
CheckCO2Alert_NoSend ==
    /\ pc = "check"
    /\ calls' = 0
    /\ result' = "none"
    /\ allHigh' = (allHigh /\ Alerting(co2))
    /\ IF Alerting(co2)
       THEN /\ currentTime' = clock
            /\ UNCHANGED emailAlertSent
            /\ IF ShouldNotify(emailAlertSent, clock, lastEmailSent)
               THEN /\ pc' = "record"
                    /\ cyc' = Logged(Evaluated(cyc, clock), "fire")
               ELSE /\ pc' = "payload"
                    /\ cyc' = Evaluated(cyc, clock)
       ELSE /\ emailAlertSent' = IF ShouldDisarm(co2) THEN FALSE
                                                      ELSE emailAlertSent
            /\ pc' = "payload"
            /\ cyc' = Evaluated(cyc, clock)
            /\ UNCHANGED currentTime
    /\ UNCHANGED <<clock, lastEmailSent, connected, co2, i, rgb, buzzer,
                   everFired>>
    /\ suspended' = 0
    /\ lowSinceFire' = (everFired /\ (lowSinceFire \/
            Below(co2, CO2_ALERT_THRESHOLD - HysteresisMargin)))
    /\ UNCHANGED <<cmds, allLow, offCycle>>

\* checkCO2Alert() lines 197-201 and 210-215: the decision. When it decides
\* to notify, sendEmailAlert() runs next and lines 203-208 after it.
CheckCO2Alert ==
    /\ pc = "check"
    /\ calls' = 0
    /\ result' = "none"
    /\ allHigh' = (allHigh /\ Alerting(co2))
    /\ IF Alerting(co2)
       THEN /\ currentTime' = clock
            /\ UNCHANGED emailAlertSent
            /\ IF ShouldNotify(emailAlertSent, clock, lastEmailSent)
               THEN /\ pc' = "sendEmail"
                    /\ cyc' = Logged(Evaluated(cyc, clock), "fire")
               ELSE /\ pc' = "payload"
                    /\ cyc' = Evaluated(cyc, clock)
       ELSE /\ emailAlertSent' = IF ShouldDisarm(co2) THEN FALSE
                                                      ELSE emailAlertSent
            /\ pc' = "payload"
            /\ cyc' = Evaluated(cyc, clock)
            /\ UNCHANGED currentTime
    /\ UNCHANGED <<clock, lastEmailSent, connected, co2, i, rgb, buzzer,
                   everFired>>
    /\ suspended' = 0
    /\ lowSinceFire' = (everFired /\ (lowSinceFire \/
            Below(co2, CO2_ALERT_THRESHOLD - HysteresisMargin)))
    /\ UNCHANGED <<cmds, allLow, offCycle>>

\* mutant: the callback re-opens the alert when the mail was not sent
SmtpCallback_Rearm(alert, success) ==
    IF success THEN alert ELSE <<FALSE, alert[2]>>

\* smtpCallback() lines 188-195: the alert state <<emailAlertSent,
\* lastEmailSent>> after the callback ran with status.success() = success.
\* It only prints.
SmtpCallback(alert, success) == alert

\* sendEmailAlert() lines 217-282. wifi: WiFi.status() == WL_CONNECTED;
\* conn: smtp.connect(); sent: MailClient.sendMail(). The SMTP session
\* reports its status through smtpCallback() (registered at line 51) while
\* it connects and sends.
SendEmailAlert ==
    /\ pc = "sendEmail"
    /\ \E wifi, conn, sent \in BOOLEAN :
        LET c0 == LoggedEach(cyc, "dispatch") IN
        IF ~wifi
        THEN \* lines 219-222: serial message only
             /\ cyc' = Failed(c0, "notify")
             /\ UNCHANGED <<clock, emailAlertSent, lastEmailSent>>
        ELSE LET c1 == LoggedEach(Shown(c0, "Sending Alert..."),
                                  "smtpConnect")
                 after == SmtpCallback(alertState, conn /\ sent)
             IN
             /\ emailAlertSent' = after[1]
             /\ lastEmailSent' = after[2]
             /\ IF ~conn
                THEN \* lines 264-269
                     /\ cyc' = Shown(Failed(c1, "notify"), "Email Error!")
                     /\ UNCHANGED clock
                ELSE LET c2 == LoggedEach(c1, "sendMail") IN
                     IF ~sent
                     THEN \* lines 271-274
                          /\ cyc' = Shown(Failed(c2, "notify"),
                                          "Email Failed!")
                          /\ UNCHANGED clock
                     ELSE \* lines 275-281
                          /\ cyc' = Shown(c2, "Alert Sent!")
                          /\ clock' = Advance(clock, AlertSentDelay)
    /\ pc' = "record"
    /\ UNCHANGED <<connected, co2, i, currentTime, rgb, buzzer, calls,
                   result, allHigh, everFired>>
    /\ UNCHANGED <<cmds, suspended, allLow, lowSinceFire, offCycle>>

\* checkCO2Alert() lines 203-206: record the notification, flash on.
RecordAlert ==
    /\ pc = "record"
    /\ lastEmailSent' = currentTime
    /\ emailAlertSent' = TRUE
    /\ everFired' = TRUE
    /\ rgb' = "red"
    /\ cyc' = Logged(cyc, "record")
    /\ pc' = "flash"
    /\ UNCHANGED <<clock, connected, co2, i, currentTime, buzzer, calls,
                   result, allHigh>>
    /\ lowSinceFire' = FALSE
    /\ UNCHANGED <<cmds, suspended, allLow, offCycle>>

\* mutant: the normal colour is not restored after the flash
Flash_StaysRed ==
    /\ pc = "flash"
    /\ clock' = Advance(clock, FlashDelay)
    /\ rgb' = rgb
    /\ pc' = "payload"
    /\ UNCHANGED <<lastEmailSent, emailAlertSent, connected, co2, i,
                   currentTime, buzzer, calls, result, cyc, allHigh,
                   everFired>>
    /\ UNCHANGED <<cmds, suspended, allLow, lowSinceFire, offCycle>>

\* checkCO2Alert() lines 207-208: delay(1000), flash off.
Flash ==
    /\ pc = "flash"
    /\ clock' = Advance(clock, FlashDelay)
    /\ rgb' = "white"
    /\ pc' = "payload"
    /\ UNCHANGED <<lastEmailSent, emailAlertSent, connected, co2, i,
                   currentTime, buzzer, calls, result, cyc, allHigh,
                   everFired>>
    /\ UNCHANGED <<cmds, suspended, allLow, lowSinceFire, offCycle>>

\* mutant: the publish step left out, the cycle goes on to the display
BuildPayload_SkipPublish ==
    /\ pc = "payload"
    /\ clock' = Advance(clock, PrePublishDelay)
    /\ i' = 0
    /\ pc' = "render"
    /\ UNCHANGED <<lastEmailSent, emailAlertSent, connected, co2,
                   currentTime, rgb, buzzer, calls, result, cyc, allHigh,
                   everFired>>
    /\ UNCHANGED <<cmds, suspended, allLow, lowSinceFire, offCycle>>

\* loop() lines 78-88: build the payload, delay(2000), lcd.clear().
BuildPayload ==
    /\ pc = "payload"
    /\ clock' = Advance(clock, PrePublishDelay)
    /\ i' = 0
    /\ pc' = "publish"
    /\ UNCHANGED <<lastEmailSent, emailAlertSent, connected, co2,
                   currentTime, rgb, buzzer, calls, result, cyc, allHigh,
                   everFired>>
    /\ UNCHANGED <<cmds, suspended, allLow, lowSinceFire, offCycle>>

\* publishWithRetry() lines 178-186, one turn of the for loop, and the test
\* of its result at line 90.
PublishWithRetry ==
    /\ pc = "publish"
    /\ RetryLoop(i, MaxRetriesDefault)
    /\ calls' = calls + 1
    /\ \E ok \in BOOLEAN :
        IF ok
        THEN \* line 181: return true
             /\ result' = "success"
             /\ cyc' = Logged(cyc, "publish")
             /\ pc' = IF PublishFailed(TRUE) THEN "publishFailed" ELSE "render"
             /\ UNCHANGED <<i, clock, suspended>>
        ELSE \* line 183, then i++ and the loop condition
             /\ clock' = Advance(clock, PublishRetryDelay)
             /\ suspended' = suspended + 1
             /\ i' = i + 1
             /\ IF RetryLoop(i + 1, MaxRetriesDefault)
                THEN /\ pc' = "publish"
                     /\ result' = "none"
                     /\ cyc' = Logged(cyc, "publish")
                ELSE \* line 185: return false
                     /\ result' = "failure"
                     /\ cyc' = Failed(Logged(cyc, "publish"), "publish")
                     /\ pc' = IF PublishFailed(FALSE) THEN "publishFailed"
                                                      ELSE "render"
    /\ UNCHANGED <<lastEmailSent, emailAlertSent, connected, co2,
                   currentTime, rgb, buzzer, allHigh, everFired>>
    /\ UNCHANGED <<cmds, allLow, lowSinceFire, offCycle>>

\* mutant: a return after the message, as in the sensor-error branch
PublishFailedMsg_Return ==
    /\ pc = "publishFailed"
    /\ cyc' = Shown(cyc, "Publish Failed!")
    /\ clock' = Advance(clock, PublishFailedDelay)
    /\ pc' = "loop"
    /\ calls' = 0
    /\ result' = "none"
    /\ UNCHANGED <<lastEmailSent, emailAlertSent, connected, co2, i,
                   currentTime, rgb, buzzer, allHigh, everFired>>
    /\ suspended' = 0
    /\ UNCHANGED <<cmds, allLow, lowSinceFire, offCycle>>

\* loop() lines 91-93: "Publish Failed!", delay(2000), lcd.clear().
PublishFailedMsg ==
    /\ pc = "publishFailed"
    /\ cyc' = Shown(cyc, "Publish Failed!")
    /\ clock' = Advance(clock, PublishFailedDelay)
    /\ pc' = "render"
    /\ calls' = 0
    /\ result' = "none"
    /\ UNCHANGED <<lastEmailSent, emailAlertSent, connected, co2, i,
                   currentTime, rgb, buzzer, allHigh, everFired>>
    /\ suspended' = 0
    /\ UNCHANGED <<cmds, allLow, lowSinceFire, offCycle>>

\* loop() lines 96-115: the readings on the display, then the buzzer test.
Render ==
    /\ pc = "render"
    /\ cyc' = Logged(cyc, "annunciate")
    /\ IF ShouldBuzz(co2)
       THEN /\ buzzer' = "HIGH"
            /\ clock' = Advance(clock, BuzzerDelay)
       ELSE UNCHANGED <<buzzer, clock>>
    /\ pc' = "buzzerOff"
    /\ calls' = 0
    /\ result' = "none"
    /\ UNCHANGED <<lastEmailSent, emailAlertSent, connected, co2, i,
                   currentTime, rgb, allHigh, everFired>>
    /\ suspended' = 0
    /\ cmds' = RenderCommands(co2, temperature, humidity)
    /\ UNCHANGED <<allLow, lowSinceFire, offCycle>>

\* loop() lines 117-118: buzzer low, delay(1000), end of the cycle.
BuzzerOff ==
    /\ pc = "buzzerOff"
    /\ buzzer' = "LOW"
    /\ clock' = Advance(clock, CycleDelay)
    /\ cyc' = Logged(cyc, "end")
    /\ pc' = "loop"
    /\ UNCHANGED <<lastEmailSent, emailAlertSent, connected, co2, i,
                   currentTime, rgb, calls, result, allHigh, everFired>>
    /\ cmds' = Append(cmds, <<"digitalWrite", "LOW", 0, 0>>)
    /\ UNCHANGED <<suspended, allLow, lowSinceFire, offCycle>>

Next ==
    \/ Setup
    \/ LoopTop
    \/ ReconnectMQTT
    \/ ReadSensorWithRetry
    \/ SensorError
    \/ CheckCO2Alert
    \/ SendEmailAlert
    \/ RecordAlert
    \/ Flash
    \/ BuildPayload
    \/ PublishWithRetry
    \/ PublishFailedMsg
    \/ Render
    \/ BuzzerOff

Spec == Init /\ [][Next]_vars

(* ======================= properties ======================= *)
\* positions of loop() reached only after checkCO2Alert() has returned
AfterAlert == {"payload", "publish", "publishFailed", "render", "buzzerOff"}
\* the evaluation of this cycle is complete (the cycle may have ended)
EvaluationDone ==
    pc \in AfterAlert \cup {"loop"} /\ Has(cyc, "evaluate")

\* C1 (hysteresis): within a cycle that started Armed, the state is
\* Disarmed only after an evaluation of a reading below threshold - margin;
\* so a reading in [threshold - margin, threshold) leaves it Armed and
\* nothing but such an evaluation disarms.
HysteresisHolds ==
    (cyc.armed0 /\ ~emailAlertSent) =>
        /\ Has(cyc, "evaluate")
        /\ co2 < (CO2_ALERT_THRESHOLD - HysteresisMargin) * CO2Scale

\* an Armed cycle evaluated a reading inside the band and is still Armed
HysteresisWitness ==
    /\ EvaluationDone
    /\ cyc.armed0
    /\ co2 >= (CO2_ALERT_THRESHOLD - HysteresisMargin) * CO2Scale
    /\ co2 < CO2_ALERT_THRESHOLD * CO2Scale
    /\ emailAlertSent

\* C2 (cooldown): when a notification is fired (a) after an earlier one in a
\* run whose readings were all >= threshold, or (b) while Armed, at least
\* EMAIL_COOLDOWN ms lie between the last notification and this one; an
\* evaluation that fires nothing leaves lastEmailSent as it was.
CooldownHolds ==
    /\ (pc = "sendEmail" /\ allHigh /\ everFired) =>
           cyc.evalAt - lastEmailSent >= EMAIL_COOLDOWN
    /\ (pc = "sendEmail" /\ emailAlertSent) =>
           cyc.evalAt - lastEmailSent >= EMAIL_COOLDOWN
    /\ (EvaluationDone /\ ~Has(cyc, "fire")) => lastEmailSent = cyc.last0

\* a second notification is being fired in a run of readings >= threshold
CooldownWitness ==
    /\ pc = "sendEmail"
    /\ allHigh
    /\ everFired
    /\ emailAlertSent

\* a reading >= threshold was evaluated while Armed and suppressed
CooldownSuppressedWitness ==
    /\ EvaluationDone
    /\ cyc.armed0
    /\ Alerting(co2)
    /\ ~Has(cyc, "fire")

\* C3 (must-fire rows): once the evaluation of a reading >= threshold is
\* complete, if the cycle started Disarmed, or started Armed with at least
\* EMAIL_COOLDOWN ms since the last notification, then a notification was
\* fired and dispatched, the state is Armed and lastEmailSent is the time of
\* the evaluation.
MustFireHolds ==
    ( /\ EvaluationDone
      /\ co2 >= CO2_ALERT_THRESHOLD * CO2Scale
      /\ \/ ~cyc.armed0
         \/ cyc.evalAt - cyc.last0 >= EMAIL_COOLDOWN )
    => /\ Has(cyc, "fire")
       /\ Has(cyc, "dispatch")
       /\ emailAlertSent
       /\ lastEmailSent = cyc.evalAt

\* a cycle that started Armed fired again after the cooldown
MustFireWitness ==
    /\ EvaluationDone
    /\ cyc.armed0
    /\ cyc.evalAt - cyc.last0 >= EMAIL_COOLDOWN
    /\ Has(cyc, "fire")
    /\ lastEmailSent = cyc.evalAt

\* the first evaluation after start-up fired
MustFireFirstWitness ==
    /\ EvaluationDone
    /\ ~everFired \/ cyc.last0 = 0
    /\ ~cyc.armed0
    /\ Has(cyc, "fire")
    /\ cyc.evalAt < EMAIL_COOLDOWN

\* C4 (retry bound): a retry call invokes the operation at most
\* MaxRetriesDefault times; when it returns success the last invocation was
\* its only success (all i before it failed); when it returns failure it
\* made exactly MaxRetriesDefault invocations and all of them failed.
RetryBoundHolds ==
    /\ calls <= MaxRetriesDefault
    /\ result = "success" => (calls = i + 1 /\ calls <= MaxRetriesDefault)
    /\ result = "failure" => (calls = MaxRetriesDefault /\ i = calls)
    /\ pc \in {"read", "publish"} => (result = "none" /\ calls = i)

\* publishWithRetry() has just returned failure after three attempts
RetryBoundWitness ==
    /\ pc = "publishFailed"
    /\ result = "failure"
    /\ calls = 3

\* readSensorWithRetry() has just succeeded at its third attempt
RetryLateSuccessWitness ==
    /\ pc = "check"
    /\ result = "success"
    /\ calls = 3

\* C5 (acquisition failure aborts the cycle): once the acquisition of a
\* cycle has exhausted its retries, that cycle evaluates nothing, publishes
\* nothing and dispatches nothing, and the alert state stays what it was
\* when the cycle started, up to the start of the next cycle.
AcquisitionAbortHolds ==
    "sensor" \in cyc.failures =>
        /\ ~Has(cyc, "evaluate")
        /\ ~Has(cyc, "publish")
        /\ ~Has(cyc, "dispatch")
        /\ ~Has(cyc, "annunciate")
        /\ emailAlertSent = cyc.armed0
        /\ lastEmailSent = cyc.last0
        /\ pc \in {"sensorError", "loop"}

\* a cycle that started Armed lost its acquisition and is over
AcquisitionAbortWitness ==
    /\ pc = "loop"
    /\ "sensor" \in cyc.failures
    /\ "Sensor Error!" \in cyc.shown
    /\ cyc.armed0
    /\ emailAlertSent

\* C6 (every fired notification is handed over exactly once): once the
\* notification of a cycle is recorded (emailAlertSent set, lastEmailSent
\* updated), sendEmailAlert() has been called exactly once in that cycle,
\* after the decision to fire; in the log of every finished cycle that call
\* comes before any publish attempt, the SMTP transport is engaged at most
\* once, and a cycle that fired nothing has no call and no SMTP traffic.
NotifyOnceHolds ==
    /\ pc = "flash" =>
        /\ Has(cyc, "record")
        /\ Count(cyc, "dispatch") = 1
        /\ Before(cyc, "fire", "dispatch")
        /\ Before(cyc, "dispatch", "record")
        /\ emailAlertSent
        /\ lastEmailSent = cyc.evalAt
    /\ pc = "loop" =>
        /\ Has(cyc, "fire") = Has(cyc, "record")
        /\ Count(cyc, "dispatch") = (IF Has(cyc, "fire") THEN 1 ELSE 0)
        /\ Count(cyc, "smtpConnect") <= Count(cyc, "dispatch")
        /\ Count(cyc, "sendMail") <= Count(cyc, "smtpConnect")
        /\ Before(cyc, "dispatch", "publish")
        /\ Before(cyc, "smtpConnect", "publish")
        /\ Before(cyc, "sendMail", "publish")

\* a cycle that recorded a notification, sent its mail and published is
\* over
NotifyOnceWitness ==
    /\ pc = "loop"
    /\ Has(cyc, "record")
    /\ Has(cyc, "sendMail")
    /\ "Alert Sent!" \in cyc.shown
    /\ Has(cyc, "publish")

\* C7 (step ordering): in the log of every finished cycle the successful
\* acquisition comes before the evaluation, the evaluation and any dispatch
\* and record of a notification before the first publish attempt, and every
\* publish attempt before the annunciation; a completed cycle has done all
\* four steps; and the thread is past the notification before it publishes.
StepOrderHolds ==
    /\ pc = "loop" =>
        /\ Before(cyc, "read", "evaluate")
        /\ Before(cyc, "acquired", "evaluate")
        /\ Before(cyc, "evaluate", "dispatch")
        /\ Before(cyc, "evaluate", "publish")
        /\ Before(cyc, "dispatch", "publish")
        /\ Before(cyc, "record", "publish")
        /\ Before(cyc, "publish", "annunciate")
        /\ Has(cyc, "evaluate") => Has(cyc, "acquired")
        /\ Has(cyc, "publish") => Has(cyc, "evaluate")
        /\ Has(cyc, "annunciate") => Has(cyc, "publish")
        /\ Has(cyc, "end") => Has(cyc, "annunciate")
        /\ Has(cyc, "fire") => Has(cyc, "record")
    /\ pc \in {"publish", "publishFailed"} => ~Has(cyc, "annunciate")
    /\ pc \in {"check", "sendEmail", "record", "flash", "payload"}
           => ~Has(cyc, "publish")

\* a cycle that fired a notification and needed a publish retry is complete
StepOrderWitness ==
    /\ pc = "loop"
    /\ Has(cyc, "end")
    /\ Has(cyc, "record")
    /\ "publish" \in cyc.failures

\* the display texts that report each kind of failure (lines 71, 91, 267
\* and 274)
FailureMessages(f) ==
    CASE f = "sensor" -> {"Sensor Error!"}
      [] f = "publish" -> {"Publish Failed!"}
      [] f = "notify" -> {"Email Error!", "Email Failed!"}

\* C8 (no failure is silent): at the end of a cycle every failure of the
\* cycle (acquisition exhausted, publish exhausted, notification fired but
\* not sent) has one of its messages among the texts the cycle wrote to the
\* display.
NoSilentFailureHolds ==
    pc = "loop" =>
        \A f \in cyc.failures : FailureMessages(f) \cap cyc.shown # {}

\* a step taken inside publishWithRetry() or the failure branch after it
\* leaves the alert state alone
PublishKeepsAlertState ==
    (pc \in {"publish", "publishFailed"}) => (alertState' = alertState)

\* C9 (publish failure is not fatal): every finished cycle that acquired a
\* reading has rendered it and run to its end, whether or not publish
\* failed; and no step of the publish phase changes the alert state.
PublishNonFatalHolds ==
    /\ [](pc = "loop" /\ Has(cyc, "acquired")
            => Has(cyc, "annunciate") /\ Has(cyc, "end"))
    /\ [][PublishKeepsAlertState]_vars

\* a cycle whose publish exhausted its retries rendered and ended
PublishNonFatalWitness ==
    /\ pc = "loop"
    /\ "publish" \in cyc.failures
    /\ "Publish Failed!" \in cyc.shown
    /\ Has(cyc, "annunciate")
    /\ Has(cyc, "end")

\* C10 (connectivity first): a cycle reads the sensor, evaluates or
\* publishes only after client.connected() has returned true in that cycle,
\* and while the loop is in the reconnect step it has done none of these.
ConnectivityFirstHolds ==
    /\ pc = "loop" =>
        /\ Before(cyc, "connected", "read")
        /\ Before(cyc, "connected", "evaluate")
        /\ Before(cyc, "connected", "publish")
        /\ (Has(cyc, "read") \/ Has(cyc, "evaluate") \/ Has(cyc, "publish"))
               => Has(cyc, "connected")
    /\ pc \in {"read", "sensorError", "check"} =>
           (Len(cyc.log) > 0 /\ cyc.log[1] = "connected")
    /\ pc = "reconnect" => cyc.log = <<>>

\* the first cycle is still in the reconnect step after two failed
\* connects and has done nothing else
ConnectivityFirstWitness ==
    /\ pc = "reconnect"
    /\ ~connected
    /\ cyc.log = <<>>
    /\ clock = WifiConnectedDelay + SetupDelay + 2 * MqttFailedDelay


(* ---------------- progress of the loop ---------------- *)
\* one turn of reconnectMQTT() in which client.connect() succeeds and the
\* link holds
ReconnectSucceeds == ReconnectMQTT /\ connected'

\* the steps of Next, with cycles and failed reconnects starting only
\* before LiveMaxClock
LiveNext ==
    \/ Setup
    \/ LoopTop /\ clock < LiveMaxClock
    \/ ReconnectMQTT /\ (connected' \/ clock < LiveMaxClock)
    \/ ReadSensorWithRetry
    \/ SensorError
    \/ CheckCO2Alert
    \/ SendEmailAlert
    \/ RecordAlert
    \/ Flash
    \/ BuildPayload
    \/ PublishWithRetry
    \/ PublishFailedMsg
    \/ Render
    \/ BuzzerOff

\* loop() is called again and again by the Arduino core and every call of a
\* collaborator returns, so the thread always takes its next step; the
\* broker is eventually reached.
LiveSpec ==
    /\ Init
    /\ [][LiveNext]_vars
    /\ WF_vars(LiveNext)
    /\ WF_vars(ReconnectSucceeds)

InCycle == pc \notin {"setup", "loop"}

\* C11 (no unrecoverable path): under LiveSpec every cycle that has started
\* ends (the thread is back at the top of loop()), whatever the sensor, the
\* notification and the publish did; from the top of loop() a new cycle
\* starts as long as the time bound of the model allows it; and no state
\* short of that bound is without a next step.
CycleProgressHolds ==
    /\ InCycle ~> (pc = "loop")
    /\ (pc = "loop" /\ clock < LiveMaxClock) ~> InCycle
    /\ [](ENABLED LiveNext \/ (pc = "loop" /\ clock >= LiveMaxClock))

\* a cycle that lost its notification and its publish has ended, after
\* earlier cycles that notified and disarmed
CycleProgressWitness ==
    /\ pc = "loop"
    /\ Has(cyc, "end")
    /\ cyc.failures = {"notify", "publish"}
    /\ cyc.last0 > 0

\* C12 as stated (buzzer follows the raw reading): when the display part of
\* a cycle is done the buzzer is HIGH exactly if the reading is above
\* 1000 ppm, and it is LOW when the cycle has ended.
BuzzerRawThresholdHolds ==
    /\ pc = "buzzerOff" =>
           (buzzer = "HIGH" <=> co2 > BuzzerThreshold * CO2Scale)
    /\ pc = "loop" => buzzer = "LOW"

\* C12 as amended (buzzer follows the truncated reading): when the display
\* part of a cycle is done the buzzer is HIGH exactly if int(co2) > 1000,
\* that is if the reading is at least 1001 ppm, whatever the alert state and
\* whether a notification was fired or suppressed; everywhere else, the end
\* of the cycle included, it is LOW.
BuzzerTruncatedHolds ==
    /\ pc = "buzzerOff" =>
           (buzzer = "HIGH" <=> co2 >= (BuzzerThreshold + 1) * CO2Scale)
    /\ pc # "buzzerOff" => buzzer = "LOW"

\* the buzzer sounds in a cycle that started Armed and whose notification
\* was suppressed by the cooldown
BuzzerWitness ==
    /\ pc = "buzzerOff"
    /\ buzzer = "HIGH"
    /\ cyc.armed0
    /\ ~Has(cyc, "fire")

\* the buzzer stays silent in a cycle that fired a notification
BuzzerSilentWitness ==
    /\ pc = "buzzerOff"
    /\ buzzer = "LOW"
    /\ Has(cyc, "record")

\* a step that changes emailAlertSent or lastEmailSent is a step of
\* checkCO2Alert() itself: its decision (line 212) or its record (lines
\* 203-204)
AlertChangedByEvaluationOnly ==
    (alertState' # alertState) => (pc \in {"check", "record"})

\* C13 (frame of the alert state): no step outside the alert evaluation,
\* that is connectivity maintenance, acquisition, sendEmailAlert() with the
\* SMTP status callback, publish, annunciation and the pauses, changes
\* emailAlertSent or lastEmailSent.
AlertFrameHolds == [][AlertChangedByEvaluationOnly]_vars

\* a cycle engaged the SMTP transport without sending, recorded its
\* notification and lost its publish; it is over
AlertFrameWitness ==
    /\ pc = "loop"
    /\ Has(cyc, "smtpConnect")
    /\ cyc.failures = {"notify", "publish"}
    /\ lastEmailSent # cyc.last0
    /\ emailAlertSent

\* C14 (quiet below the threshold): the process starts Disarmed, and as long
\* as every reading acquired since start-up was below the threshold the
\* state is Disarmed, no notification was fired or handed to
\* sendEmailAlert(), nothing was recorded and the display is not red.
QuietBelowThresholdHolds ==
    /\ pc = "setup" => (~emailAlertSent /\ allLow)
    /\ allLow =>
        /\ ~emailAlertSent
        /\ lastEmailSent = 0
        /\ ~everFired
        /\ rgb = "white"
        /\ pc \notin {"sendEmail", "record", "flash"}
        /\ ~Has(cyc, "fire")
        /\ ~Has(cyc, "dispatch")

\* several cycles have completed, the last one on a reading of 999.9 ppm,
\* and no reading has reached the threshold yet
QuietBelowThresholdWitness ==
    /\ pc = "loop"
    /\ allLow
    /\ Has(cyc, "end")
    /\ co2 = 9999
    /\ clock >= 5 * CycleDelay + SetupDelay + WifiConnectedDelay

(* ---------------- the render on its own ---------------- *)
\* readings of the other two channels, in tenths: -0.5, 21.5 and 21.9 degrees
\* Celsius; 40.0 and 40.5 percent
Temperatures == {-5, 215, 219}
Humidities == {400, 405}

\* loop() at line 96 of some cycle: any reading, any alert state, the
\* publish of the cycle sent (published) or given up.
RenderInit ==
    /\ pc = "render"
    /\ clock = SetupDelay + WifiConnectedDelay + PrePublishDelay
    /\ lastEmailSent \in {0, SetupDelay + WifiConnectedDelay}
    /\ emailAlertSent \in BOOLEAN
    /\ connected \in BOOLEAN
    /\ co2 \in Readings
    /\ temperature \in Temperatures
    /\ humidity \in Humidities
    /\ i = 0
    /\ currentTime = 0
    /\ rgb = "white"
    /\ buzzer = "LOW"
    /\ calls = 0
    /\ result = "none"
    /\ \E published \in BOOLEAN :
        cyc = IF published
              THEN Logged(NewCycle(emailAlertSent, lastEmailSent), "publish")
              ELSE Shown(Failed(Logged(NewCycle(emailAlertSent,
                                                lastEmailSent),
                                       "publish"), "publish"),
                         "Publish Failed!")
    /\ allHigh = FALSE
    /\ everFired = emailAlertSent
    /\ cmds = << >>
    /\ suspended = 0
    /\ allLow = FALSE
    /\ lowSinceFire = FALSE
    /\ rendered = {}
    /\ elapsedTrue = 0

\* a later cycle arrives at line 96: what the earlier render issued is
\* kept, and the reading, the alert state and the publish outcome are
\* whatever that cycle made them.
RenderAgain ==
    /\ pc = "loop"
    /\ rendered = {}
    /\ rendered' = {[reading |-> <<co2, temperature, humidity>>,
                     issued |-> cmds,
                     armed |-> emailAlertSent,
                     failures |-> cyc.failures]}
    /\ pc' = "render"
    /\ cmds' = << >>
    /\ emailAlertSent' \in BOOLEAN
    /\ connected' \in BOOLEAN
    /\ co2' \in Readings
    /\ temperature' \in Temperatures
    /\ humidity' \in Humidities
    /\ \E published \in BOOLEAN :
        cyc' = IF published
               THEN Logged(NewCycle(emailAlertSent', lastEmailSent),
                           "publish")
               ELSE Shown(Failed(Logged(NewCycle(emailAlertSent',
                                                 lastEmailSent),
                                        "publish"), "publish"),
                          "Publish Failed!")
    /\ everFired' = (everFired \/ emailAlertSent')
    /\ UNCHANGED <<clock, lastEmailSent, i, currentTime, rgb, buzzer, calls,
                   result, allHigh, suspended, allLow, lowSinceFire,
                   elapsedTrue>>

RenderNext ==
    \/ Render
    \/ BuzzerOff
    \/ RenderAgain

RenderSpec == RenderInit /\ [][RenderNext]_vars

RetryDelayBetweenHolds ==
    result # "none" => suspended = calls - 1

\* what lines 170-173 and 180-183 do: one delay after every failed
\* invocation, the last one included, and none after the successful one
RetryDelayAfterEachFailure ==
    /\ result = "success" => suspended = calls - 1
    /\ result = "failure" => (suspended = calls /\ calls = MaxRetriesDefault)

\* C17 (the alert colour is a flash): the display is red only inside
\* checkCO2Alert() of a cycle that fired a notification, it is red there
\* whether or not the e-mail went out, and it is white again from the
\* payload on, so it is white at every cycle boundary.
FlashTransientHolds ==
    /\ rgb = "red" => (pc = "flash" /\ Has(cyc, "fire"))
    /\ pc = "flash" => rgb = "red"
    /\ pc \in AfterAlert \cup {"loop", "setup"} => rgb = "white"

\* a re-notification after the cooldown whose e-mail was not sent: the
\* display is red all the same
FlashTransientWitness ==
    /\ pc = "flash"
    /\ rgb = "red"
    /\ cyc.armed0
    /\ "notify" \in cyc.failures

\* a first notification whose e-mail was sent, the flash over and the cycle
\* complete
FlashRestoredWitness ==
    /\ pc = "loop"
    /\ rgb = "white"
    /\ Has(cyc, "record")
    /\ Has(cyc, "end")
    /\ ~cyc.armed0
    /\ "notify" \notin cyc.failures

\* C18 (only a disarm shortens the cooldown): when a notification is fired
\* less than EMAIL_COOLDOWN after the previous one, some evaluation between
\* the two saw a reading below threshold - margin; readings in the band or
\* above do not bring the next notification forward.
EarlyRefireNeedsDisarmHolds ==
    (/\ pc = "sendEmail"
     /\ everFired
     /\ currentTime - lastEmailSent < EMAIL_COOLDOWN) => lowSinceFire

\* a second notification is fired inside the cooldown of the first, after a
\* disarm
EarlyRefireWitness ==
    /\ pc = "sendEmail"
    /\ everFired
    /\ currentTime - lastEmailSent < EMAIL_COOLDOWN
    /\ lowSinceFire
    /\ ~cyc.armed0

\* a reading at the threshold is suppressed inside the cooldown although
\* the cycles since the notification saw no reading below the band
BandKeepsCooldownWitness ==
    /\ pc = "payload"
    /\ Has(cyc, "evaluate")
    /\ ~Has(cyc, "fire")
    /\ co2 = 10000
    /\ everFired
    /\ ~lowSinceFire
    /\ ~allHigh
    /\ clock - lastEmailSent < EMAIL_COOLDOWN

(* ---------------- the cooldown test across the wrap ---------------- *)
\* values of millis() at the last notification: just after boot, and at
\* distances from the wrap smaller and larger than the cooldown
WrapLasts ==
    {0, 1, EMAIL_COOLDOWN, Wrap - EMAIL_COOLDOWN - 1, Wrap - EMAIL_COOLDOWN,
     Wrap - EMAIL_COOLDOWN \div 2, Wrap - 1}

\* times really elapsed since then, all below 2^ClockBits
WrapElapsed ==
    {0, 1, EMAIL_COOLDOWN \div 2, EMAIL_COOLDOWN - 1, EMAIL_COOLDOWN,
     EMAIL_COOLDOWN + 1, Wrap - EMAIL_COOLDOWN, Wrap - 1}

\* loop() at line 76 of a cycle that started Armed and acquired a reading at
\* or above the threshold, elapsedTrue ms after the notification recorded in
\* lastEmailSent; millis() has wrapped wherever lastEmailSent + elapsedTrue
\* passes 2^ClockBits.
WrapInit ==
    /\ pc = "check"
    /\ emailAlertSent = TRUE
    /\ lastEmailSent \in WrapLasts
    /\ elapsedTrue \in WrapElapsed
    /\ clock = Advance(lastEmailSent, elapsedTrue)
    /\ co2 \in {c \in Readings : AtLeast(c, CO2_ALERT_THRESHOLD)}
    /\ connected \in BOOLEAN
    /\ i = 0
    /\ currentTime = 0
    /\ rgb = "white"
    /\ buzzer = "LOW"
    /\ calls = 1
    /\ result = "success"
    /\ cyc = Logged(Logged(NewCycle(TRUE, lastEmailSent), "read"),
                    "acquired")
    /\ allHigh \in BOOLEAN
    /\ everFired = TRUE
    /\ temperature = 0
    /\ humidity = 0
    /\ cmds = << >>
    /\ suspended = 0
    /\ allLow = FALSE
    /\ lowSinceFire = FALSE
    /\ rendered = {}

\* checkCO2Alert() from its first to its last line
WrapNext ==
    \/ CheckCO2Alert
    \/ SendEmailAlert
    \/ RecordAlert
    \/ Flash

WrapSpec == WrapInit /\ [][WrapNext]_vars

\* C19 (cooldown across the wrap): for an Armed evaluation of a reading at
\* or above the threshold whose true elapsed time since the last
\* notification is below 2^ClockBits, the decision taken on the wrapped
\* counter is the decision on the unbounded clock: fire exactly when the
\* true elapsed time has reached EMAIL_COOLDOWN.
WrapCooldownHolds ==
    (pc # "check" /\ cyc.armed0 /\ elapsedTrue < Wrap) =>
        (Has(cyc, "fire") <=> elapsedTrue >= EMAIL_COOLDOWN)

\* a notification fired on a counter that wrapped since the last one: the
\* time of the evaluation is numerically below lastEmailSent
WrapFiredWitness ==
    /\ pc = "sendEmail"
    /\ currentTime < lastEmailSent
    /\ elapsedTrue >= EMAIL_COOLDOWN
    /\ cyc.last0 + elapsedTrue >= Wrap

\* the same, suppressed: the counter wrapped but the cooldown has not
\* passed
WrapSuppressedWitness ==
    /\ pc = "payload"
    /\ ~Has(cyc, "fire")
    /\ clock < lastEmailSent
    /\ elapsedTrue > 0
    /\ elapsedTrue < EMAIL_COOLDOWN
====
